---- MODULE Spec2Model ----
(***************************************************************************)
(* Window-management core of SDUX_DE (src/SDUX_DE_ALPHA_1.0.py):           *)
(* InternalWindow (drag / resize / minimize / maximize / close),           *)
(* WorkspaceManager (add_window, switch_to) and PyShellApp (launch_app,    *)
(* on_window_closed, cycle_windows, switch_workspace).                     *)
(*                                                                         *)
(* Rectangles are tuples <<x, y, width, height>>, points are <<x, y>>;     *)
(* Python None is the empty tuple.  Window positions are the ones the      *)
(* handlers set with move / setFixedSize / setGeometry; the pass of the    *)
(* canvas' QVBoxLayout over its children is not modelled.  Global pointer  *)
(* coordinates are taken relative to the canvas of the window, the code    *)
(* only ever uses differences of global positions.                         *)
(***************************************************************************)
EXTENDS Integers, Sequences, FiniteSets

(* ---- bounds of the model ---- *)
MaxWindows == 2
MaxGestures == 2
ParentWidth == 1280
ParentHeight == 672

(* ---- program constants ---- *)
PANEL_HEIGHT == 48
DOCK_WIDTH == 64
WORKSPACE_COUNT == 4
TitlebarHeight == 32
ResizeCorner == 12
MinWidth == 200
MinHeight == 100
InitWidth == 640
InitHeight == 360

(* window identities: the ring specification launches one window more than the *)
(* others                                                                      *)
Ids == 1..(MaxWindows + 1)
(* an identity no window has *)
NoWindow == MaxWindows + 2
None == << >>
WsIndex == 0..(WORKSPACE_COUNT - 1)

(* pointer positions (global) the environment moves the pointer to *)
PointerPositions == { <<58, -22>>, <<-264, -544>>, <<700, 400>> }
Buttons == {"left", "right"}
(* indexes handed to switch_to / add_window, deltas handed to switch_workspace *)
SwitchIndexes ==
  { 0 - WORKSPACE_COUNT - 1, 0 - WORKSPACE_COUNT, 0 - 1, 0, 1, WORKSPACE_COUNT - 1,
    WORKSPACE_COUNT, 2 * WORKSPACE_COUNT - 1 }
Deltas == {0 - WORKSPACE_COUNT - 1, -1, 1, WORKSPACE_COUNT + 2}
(* sizes the primary screen takes *)
ScreenSizes == { <<1920, 1080>>, <<1280, 720>>, <<800, 600>> }

VARIABLES
  windows,              \* PyShellApp.windows: the focus ring, front first
  workspaces,           \* per canvas: the widgets of its layout, in insertion order
  zorder,               \* per canvas: sibling stacking order, back to front (raise_)
  current,              \* WorkspaceManager.current
  nextId,               \* identity of the next InternalWindow constructed
  open,                 \* windows constructed and not yet closed
  focused,              \* window that last received setFocus / click focus
  geometry,             \* QWidget.geometry() of each window
  fixedSize,            \* TRUE once setFixedSize pinned minimum = maximum size
  is_maximized,
  prev_geometry,
  dragging,
  drag_offset,
  resizing,
  resize_start,
  resize_initial_geom,
  hidden,               \* hide() was called (on_min)
  addResult,            \* outcome of the last direct add_window call
  staleResult,          \* outcome of the last call made on the handle of a closed window
  screen_sz,            \* QApplication.primaryScreen().size()
  panel,                \* geometry of the top panel overlay
  dock,                 \* geometry of the dock overlay
  notifications,        \* geometry of the notification center overlay
  closeEvents,          \* per window: what its on_close did, in the order it did it
  gestures,             \* number of drags and resizes started so far
  gestureStart,         \* history: <<kind, anchor, bounds>> at the pointer-down of the gesture
  preMax,               \* history: bounds when the window was maximized
  resizedSinceMax,      \* history: a resize changed the window since it was maximized
  cycleMark,            \* history: ring at the last launch / close / full round
  cycleCount            \* history: cycle_windows calls since cycleMark was taken

winvars == <<geometry, fixedSize, is_maximized, prev_geometry, dragging, drag_offset,
             resizing, resize_start, resize_initial_geom, hidden>>
histvars == <<gestureStart, preMax, resizedSinceMax, cycleMark, cycleCount>>
(* state no handler of an open window writes *)
envvars == <<staleResult, screen_sz, panel, dock, notifications>>
vars == <<windows, workspaces, zorder, current, nextId, open, focused, winvars,
          addResult, envvars, closeEvents, gestures, histvars>>

(* ---- helpers ---- *)
Rect(x, y, w, h) == <<x, y, w, h>>
RX(r) == r[1]
RY(r) == r[2]
RW(r) == r[3]
RH(r) == r[4]
TopLeft(r) == <<r[1], r[2]>>
PtSub(p, q) == <<p[1] - q[1], p[2] - q[2]>>
PtAdd(p, q) == <<p[1] + q[1], p[2] + q[2]>>
Max(a, b) == IF a >= b THEN a ELSE b

Remove(seq, w) == SelectSeq(seq, LAMBDA e : e # w)
InSeq(seq, w) == \E i \in 1..Len(seq) : seq[i] = w
Count(seq, w) == Cardinality({i \in 1..Len(seq) : seq[i] = w})

(* the canvas whose layout holds w *)
Owner(w) == CHOOSE k \in WsIndex : InSeq(workspaces[k], w)
(* a window takes pointer and button input only when shown on the visible canvas *)
Visible(w) == w \in open /\ ~hidden[w] /\ Owner(w) = current

(* ---- overlays ---- *)
(* reposition_overlays: the three rectangles for a screen of size sz *)
panel_geometry(sz) == Rect(0, 0, sz[1], PANEL_HEIGHT)

(* a dock that leaves the margin out at its lower end *)
dock_geometry_one_margin(sz) ==
  Rect(8, PANEL_HEIGHT + 8, DOCK_WIDTH, sz[2] - PANEL_HEIGHT - 8)

dock_geometry(sz) == Rect(8, PANEL_HEIGHT + 8, DOCK_WIDTH, sz[2] - PANEL_HEIGHT - 16)
notifications_geometry(sz) == Rect(sz[1] - 340, PANEL_HEIGHT + 8, 320, 400)

(* ---- construction ---- *)
(* the screen whose canvases are ParentWidth x ParentHeight below the panel *)
InitScreen == <<ParentWidth, ParentHeight + PANEL_HEIGHT>>
InitGeometry == Rect(0, 0, InitWidth, InitHeight)

Init ==
  /\ windows = << >>
  /\ workspaces = [k \in WsIndex |-> << >>]
  /\ zorder = [k \in WsIndex |-> << >>]
  /\ current = 0
  /\ nextId = 1
  /\ open = {}
  /\ focused = NoWindow
  /\ geometry = [w \in Ids |-> None]
  /\ fixedSize = [w \in Ids |-> FALSE]
  /\ is_maximized = [w \in Ids |-> FALSE]
  /\ prev_geometry = [w \in Ids |-> None]
  /\ dragging = [w \in Ids |-> FALSE]
  /\ drag_offset = [w \in Ids |-> None]
  /\ resizing = [w \in Ids |-> FALSE]
  /\ resize_start = [w \in Ids |-> None]
  /\ resize_initial_geom = [w \in Ids |-> None]
  /\ hidden = [w \in Ids |-> FALSE]
  /\ addResult = "none"
  /\ staleResult = "none"
  /\ closeEvents = [w \in Ids |-> << >>]
  /\ screen_sz = InitScreen
  /\ panel = panel_geometry(InitScreen)
  /\ dock = dock_geometry(InitScreen)
  /\ notifications = notifications_geometry(InitScreen)
  /\ gestures = 0
  /\ gestureStart = [w \in Ids |-> None]
  /\ preMax = [w \in Ids |-> None]
  /\ resizedSinceMax = [w \in Ids |-> FALSE]
  /\ cycleMark = << >>
  /\ cycleCount = 0

(* InternalWindow.__init__: state of a freshly constructed window *)
Construct(w) ==
  /\ geometry' = [geometry EXCEPT ![w] = InitGeometry]
  /\ fixedSize' = [fixedSize EXCEPT ![w] = FALSE]
  /\ is_maximized' = [is_maximized EXCEPT ![w] = FALSE]
  /\ prev_geometry' = [prev_geometry EXCEPT ![w] = Rect(0, 0, 0, 0)]
  /\ dragging' = [dragging EXCEPT ![w] = FALSE]
  /\ drag_offset' = [drag_offset EXCEPT ![w] = None]
  /\ resizing' = [resizing EXCEPT ![w] = FALSE]
  /\ resize_start' = [resize_start EXCEPT ![w] = None]
  /\ resize_initial_geom' = [resize_initial_geom EXCEPT ![w] = None]

(* ---- WorkspaceManager ---- *)
(* self.workspaces[idx]: Python list indexing, negative indexes count from the end *)
IndexOk(idx) == idx >= 0 - WORKSPACE_COUNT /\ idx < WORKSPACE_COUNT
PyIndex(idx) == IF idx < 0 THEN idx + WORKSPACE_COUNT ELSE idx

(* raise_(): w becomes the top sibling of its canvas *)
Raised(z, k, w) == [z EXCEPT ![k] = Append(Remove(@, w), w)]

(* an add_window that puts the widget into the visible canvas as well *)
add_window_also_current(w, idx) ==
  /\ workspaces' = [k \in WsIndex |->
                      IF k = PyIndex(idx) \/ k = (current + 1) % WORKSPACE_COUNT
                      THEN Append(workspaces[k], w) ELSE workspaces[k]]
  /\ zorder' = Raised(zorder, PyIndex(idx), w)
  /\ hidden' = [hidden EXCEPT ![w] = FALSE]
  /\ focused' = w

(* an add_window whose show() reaches every window, the minimized ones included *)
add_window_showing_all(w, idx) ==
  /\ workspaces' = [workspaces EXCEPT ![PyIndex(idx)] = Append(@, w)]
  /\ zorder' = Raised(zorder, PyIndex(idx), w)
  /\ hidden' = [v \in Ids |-> FALSE]
  /\ focused' = w

(* add_window past the indexing: addWidget, show, focus_me *)
add_window(w, idx) ==
  /\ workspaces' = [workspaces EXCEPT ![PyIndex(idx)] = Append(@, w)]
  /\ zorder' = Raised(zorder, PyIndex(idx), w)
  /\ hidden' = [hidden EXCEPT ![w] = FALSE]
  /\ focused' = w

(* the remainder that keeps the sign of the index, as C and Java compute it *)
switch_to_truncating(index) ==
  IF index < 0 THEN 0 - ((0 - index) % WORKSPACE_COUNT) ELSE index % WORKSPACE_COUNT

(* a switch_to that brings an index outside 0..N-1 to the nearest workspace *)
switch_to_clamping(index) ==
  IF index < 0 THEN 0 ELSE IF index >= WORKSPACE_COUNT THEN WORKSPACE_COUNT - 1 ELSE index

(* switch_to *)
switch_to(index) == index % WORKSPACE_COUNT

(* a switch that also drops from the ring the windows of the other canvases *)
SwitchTo_filtering(index) ==
  /\ current' = index % WORKSPACE_COUNT
  /\ windows' = SelectSeq(windows, LAMBDA w : InSeq(workspaces[index % WORKSPACE_COUNT], w))
  /\ UNCHANGED <<workspaces, zorder, nextId, open, focused, winvars,
                 addResult, envvars, closeEvents, gestures, histvars>>

SwitchTo(index) ==
  /\ current' = switch_to(index)
  /\ UNCHANGED <<windows, workspaces, zorder, nextId, open, focused, winvars,
                 addResult, envvars, closeEvents, gestures, histvars>>

(* ---- PyShellApp ---- *)
(* launch_app for the four built-in kinds; they differ only in title and content *)
launch_app ==
  /\ Construct(nextId)
  /\ add_window(nextId, current)
  /\ windows' = Append(windows, nextId)
  /\ open' = open \cup {nextId}
  /\ nextId' = nextId + 1
  /\ cycleMark' = Append(windows, nextId)
  /\ cycleCount' = 0
  /\ UNCHANGED <<current, addResult, envvars, closeEvents, gestures, gestureStart, preMax,
                 resizedSinceMax>>

LaunchApp == nextId <= MaxWindows /\ launch_app

(* a direct call add_window(win, idx) on a freshly constructed window *)
AddWindowCall(idx) ==
  /\ nextId <= MaxWindows
  /\ IF IndexOk(idx)
     THEN /\ Construct(nextId)
          /\ add_window(nextId, idx)
          /\ open' = open \cup {nextId}
          /\ nextId' = nextId + 1
          /\ addResult' = "ok"
          /\ UNCHANGED <<windows, current, envvars, closeEvents, gestures, histvars>>
     ELSE /\ addResult' = "IndexError"
          /\ UNCHANGED <<windows, workspaces, zorder, current, nextId, open, focused,
                         winvars, envvars, closeEvents, gestures, histvars>>

(* a handler that leaves the closed window in the list *)
on_window_closed_keeping(ring, w) == ring

(* a handler that drops the front of the list, whichever window was closed *)
on_window_closed_front(ring, w) == IF ring = << >> THEN ring ELSE Tail(ring)

(* on_window_closed, then close() of a WA_DeleteOnClose widget *)
on_window_closed(ring, w) == IF InSeq(ring, w) THEN Remove(ring, w) ELSE ring

(* an on_close that closes the widget before it emits window_closed *)
on_close_events_close_first(log, w) == log \o << <<"close", w>>, <<"window_closed", w>> >>

(* on_close: window_closed.emit(self), then self.close() *)
on_close_events(log, w) == log \o << <<"window_closed", w>>, <<"close", w>> >>

OnClose(w) ==
  /\ Visible(w)
  /\ windows' = on_window_closed(windows, w)
  /\ workspaces' = [k \in WsIndex |-> Remove(workspaces[k], w)]
  /\ zorder' = [k \in WsIndex |-> Remove(zorder[k], w)]
  /\ open' = open \ {w}
  /\ focused' = IF focused = w THEN NoWindow ELSE focused
  /\ geometry' = [geometry EXCEPT ![w] = None]
  /\ fixedSize' = [fixedSize EXCEPT ![w] = FALSE]
  /\ is_maximized' = [is_maximized EXCEPT ![w] = FALSE]
  /\ prev_geometry' = [prev_geometry EXCEPT ![w] = None]
  /\ dragging' = [dragging EXCEPT ![w] = FALSE]
  /\ drag_offset' = [drag_offset EXCEPT ![w] = None]
  /\ resizing' = [resizing EXCEPT ![w] = FALSE]
  /\ resize_start' = [resize_start EXCEPT ![w] = None]
  /\ resize_initial_geom' = [resize_initial_geom EXCEPT ![w] = None]
  /\ hidden' = [hidden EXCEPT ![w] = FALSE]
  /\ gestureStart' = [gestureStart EXCEPT ![w] = None]
  /\ preMax' = [preMax EXCEPT ![w] = None]
  /\ resizedSinceMax' = [resizedSinceMax EXCEPT ![w] = FALSE]
  /\ cycleMark' = on_window_closed(windows, w)
  /\ cycleCount' = 0
  /\ closeEvents' = [closeEvents EXCEPT ![w] = on_close_events(@, w)]
  /\ UNCHANGED <<current, nextId, addResult, envvars, gestures>>

(* a rotation the other way: the last window comes to the front *)
cycle_ring_backwards(ring) == <<ring[Len(ring)]>> \o SubSeq(ring, 1, Len(ring) - 1)

(* pop(0) without the append *)
cycle_ring_dropping(ring) == Tail(ring)

(* cycle_windows: the ring after pop(0) / append *)
cycle_ring(ring) == Append(Tail(ring), Head(ring))

(* a cycle_windows that, finding the ring empty, goes on to the next workspace *)
CycleWindows_searching ==
  /\ windows = << >>
  /\ current' = (current + 1) % WORKSPACE_COUNT
  /\ UNCHANGED <<windows, workspaces, zorder, nextId, open, focused, winvars,
                 addResult, envvars, closeEvents, gestures, histvars>>

(* cycle_windows *)
CycleWindows ==
  IF windows = << >>
  THEN UNCHANGED vars
  ELSE /\ windows' = cycle_ring(windows)
       /\ zorder' = Raised(zorder, Owner(Head(windows)), Head(windows))
       /\ focused' = Head(windows)
       /\ IF cycleCount >= Len(windows)
          THEN cycleMark' = windows /\ cycleCount' = 1
          ELSE cycleMark' = cycleMark /\ cycleCount' = cycleCount + 1
       /\ UNCHANGED <<workspaces, current, nextId, open, winvars, addResult, envvars,
                      closeEvents, gestures,
                      gestureStart, preMax, resizedSinceMax>>

(* a switch_workspace that stops at the first and at the last workspace *)
switch_workspace_idx_clamping(cur, delta) ==
  IF cur + delta < 0 THEN 0
  ELSE IF cur + delta >= WORKSPACE_COUNT THEN WORKSPACE_COUNT - 1 ELSE cur + delta

(* switch_workspace: idx, the index it hands to switch_to *)
switch_workspace_idx(cur, delta) == (cur + delta) % WORKSPACE_COUNT
(* the workspace number its notification names: f"Switched to {idx+1}" *)
switch_workspace_notice(cur, delta) == switch_workspace_idx(cur, delta) + 1
(* the active index after switch_workspace(delta) called with active index cur *)
switch_workspace(cur, delta) == switch_to(switch_workspace_idx(cur, delta))

SwitchWorkspace(delta) ==
  /\ current' = switch_workspace(current, delta)
  /\ UNCHANGED <<windows, workspaces, zorder, nextId, open, focused, winvars,
                 addResult, envvars, closeEvents, gestures, histvars>>

(* ---- InternalWindow: pointer handlers ---- *)
(* local points of a window the pointer goes down on: title bar, resize corner, body *)
LocalPoints(w) ==
  { <<8, 8>>, <<RW(geometry[w]) - 4, RH(geometry[w]) - 4>>, <<50, 50>> }
(* globalPos of a local point (mapToGlobal, canvas at the origin) *)
GlobalPos(w, lp) == PtAdd(TopLeft(geometry[w]), lp)

InTitlebar(w, lp) == lp[2] <= TitlebarHeight
InResizeCorner(w, lp) ==
  /\ lp[1] >= RW(geometry[w]) - ResizeCorner
  /\ lp[2] >= RH(geometry[w]) - ResizeCorner

(* mousePressEvent; the window has Qt.ClickFocus, so the click also focuses it *)
MousePress(w, button, lp) ==
  /\ Visible(w)
  /\ focused' = w
  /\ IF button = "left" /\ InTitlebar(w, lp)
     THEN /\ gestures < MaxGestures
          /\ gestures' = gestures + 1
          /\ dragging' = [dragging EXCEPT ![w] = TRUE]
          /\ drag_offset' = [drag_offset EXCEPT
                               ![w] = PtSub(GlobalPos(w, lp), TopLeft(geometry[w]))]
          /\ gestureStart' = [gestureStart EXCEPT
                                ![w] = <<"drag", GlobalPos(w, lp), geometry[w]>>]
          /\ UNCHANGED <<resizing, resize_start, resize_initial_geom>>
     ELSE IF button = "left" /\ InResizeCorner(w, lp)
     THEN /\ gestures < MaxGestures
          /\ gestures' = gestures + 1
          /\ resizing' = [resizing EXCEPT ![w] = TRUE]
          /\ resize_start' = [resize_start EXCEPT ![w] = GlobalPos(w, lp)]
          /\ resize_initial_geom' = [resize_initial_geom EXCEPT ![w] = geometry[w]]
          /\ gestureStart' = [gestureStart EXCEPT
                                ![w] = <<"resize", GlobalPos(w, lp), geometry[w]>>]
          /\ UNCHANGED <<dragging, drag_offset>>
     ELSE UNCHANGED <<gestures, dragging, drag_offset, gestureStart, resizing,
                      resize_start, resize_initial_geom>>
  /\ UNCHANGED <<windows, workspaces, zorder, current, nextId, open, geometry,
                 fixedSize, is_maximized, prev_geometry, hidden, addResult, envvars, closeEvents,
                 preMax, resizedSinceMax, cycleMark, cycleCount>>

(* a drag that forgets the offset recorded at the pointer-down *)
drag_geometry_no_offset(g, gp, offset) == Rect(gp[1], gp[2], RW(g), RH(g))

(* move(): new origin of a drag *)
drag_geometry(g, gp, offset) ==
  Rect(gp[1] - offset[1], gp[2] - offset[2], RW(g), RH(g))

(* a resize without the minimum-size floor *)
resize_geometry_unclamped(g, gp, start, initial) ==
  Rect(RX(g), RY(g), RW(initial) + (gp[1] - start[1]), RH(initial) + (gp[2] - start[2]))

(* setFixedSize(): new size of a resize *)
resize_geometry(g, gp, start, initial) ==
  Rect(RX(g), RY(g),
       Max(MinWidth, RW(initial) + (gp[1] - start[1])),
       Max(MinHeight, RH(initial) + (gp[2] - start[2])))

(* mouseMoveEvent *)
MouseMove(w, gp) ==
  /\ w \in open
  /\ IF dragging[w]
     THEN /\ geometry' = [geometry EXCEPT
                            ![w] = drag_geometry(geometry[w], gp, drag_offset[w])]
          /\ UNCHANGED <<fixedSize, resizedSinceMax>>
     ELSE IF resizing[w] /\ resize_initial_geom[w] # None
     THEN /\ geometry' = [geometry EXCEPT
                            ![w] = resize_geometry(geometry[w], gp, resize_start[w],
                                                   resize_initial_geom[w])]
          /\ fixedSize' = [fixedSize EXCEPT ![w] = TRUE]
          /\ resizedSinceMax' = [resizedSinceMax EXCEPT ![w] = is_maximized[w]]
     ELSE UNCHANGED <<geometry, fixedSize, resizedSinceMax>>
  /\ UNCHANGED <<windows, workspaces, zorder, current, nextId, open, focused,
                 is_maximized, prev_geometry, dragging, drag_offset, resizing,
                 resize_start, resize_initial_geom, hidden, addResult, envvars, closeEvents, gestures,
                 gestureStart, preMax, cycleMark, cycleCount>>

(* a release that ends a drag and leaves a resize running *)
MouseRelease_drag_only(w) ==
  /\ w \in open
  /\ dragging' = [dragging EXCEPT ![w] = FALSE]
  /\ gestureStart' = [gestureStart EXCEPT ![w] = IF resizing[w] THEN @ ELSE None]
  /\ UNCHANGED <<windows, workspaces, zorder, current, nextId, open, focused,
                 geometry, fixedSize, is_maximized, prev_geometry, drag_offset,
                 resizing, resize_start, resize_initial_geom, hidden, addResult,
                 envvars, closeEvents, gestures, preMax, resizedSinceMax, cycleMark,
                 cycleCount>>

(* mouseReleaseEvent *)
MouseRelease(w) ==
  /\ w \in open
  /\ dragging' = [dragging EXCEPT ![w] = FALSE]
  /\ resizing' = [resizing EXCEPT ![w] = FALSE]
  /\ gestureStart' = [gestureStart EXCEPT ![w] = None]
  /\ UNCHANGED <<windows, workspaces, zorder, current, nextId, open, focused,
                 geometry, fixedSize, is_maximized, prev_geometry, drag_offset,
                 resize_start, resize_initial_geom, hidden, addResult, envvars, closeEvents, gestures,
                 preMax, resizedSinceMax, cycleMark, cycleCount>>

(* ---- InternalWindow: window controls ---- *)
(* a minimize that also takes the window out of the ring *)
OnMin_leaving_ring(w) ==
  /\ Visible(w)
  /\ hidden' = [hidden EXCEPT ![w] = TRUE]
  /\ windows' = Remove(windows, w)
  /\ UNCHANGED <<workspaces, zorder, current, nextId, open, focused,
                 geometry, fixedSize, is_maximized, prev_geometry, dragging,
                 drag_offset, resizing, resize_start, resize_initial_geom,
                 addResult, envvars, closeEvents, gestures, histvars>>

(* on_min *)
OnMin(w) ==
  /\ Visible(w)
  /\ hidden' = [hidden EXCEPT ![w] = TRUE]
  /\ UNCHANGED <<windows, workspaces, zorder, current, nextId, open, focused,
                 geometry, fixedSize, is_maximized, prev_geometry, dragging,
                 drag_offset, resizing, resize_start, resize_initial_geom,
                 addResult, envvars, closeEvents, gestures, histvars>>

(* QWidget.setGeometry: the size stays within minimumSize .. maximumSize *)
set_geometry(w, r) ==
  IF fixedSize[w] THEN Rect(RX(r), RY(r), RW(geometry[w]), RH(geometry[w])) ELSE r

(* geometry on_max gives a window that is not maximized *)
maximized_geometry ==
  Rect(10, PANEL_HEIGHT + 10, ParentWidth - 20, ParentHeight - PANEL_HEIGHT - 20)

(* on_max: the saved geometry and the new geometry of the toggle *)
on_max_saved(w) == IF ~is_maximized[w] THEN geometry[w] ELSE prev_geometry[w]

(* a toggle whose second half clears the flag and leaves the geometry alone *)
on_max_geometry_no_restore(w) ==
  IF ~is_maximized[w] THEN set_geometry(w, maximized_geometry) ELSE geometry[w]

on_max_geometry(w) ==
  IF ~is_maximized[w]
  THEN set_geometry(w, maximized_geometry)
  ELSE set_geometry(w, prev_geometry[w])

OnMax(w) ==
  /\ Visible(w)
  /\ prev_geometry' = [prev_geometry EXCEPT ![w] = on_max_saved(w)]
  /\ geometry' = [geometry EXCEPT ![w] = on_max_geometry(w)]
  /\ is_maximized' = [is_maximized EXCEPT ![w] = ~is_maximized[w]]
  /\ preMax' = [preMax EXCEPT ![w] = IF ~is_maximized[w] THEN geometry[w] ELSE None]
  /\ resizedSinceMax' = [resizedSinceMax EXCEPT ![w] = FALSE]
  /\ UNCHANGED <<windows, workspaces, zorder, current, nextId, open, focused,
                 fixedSize, dragging, drag_offset, resizing, resize_start,
                 resize_initial_geom, hidden, addResult, envvars, closeEvents, gestures, gestureStart,
                 cycleMark, cycleCount>>

(* ---- calls on the handle of a closed window ---- *)
(* w was closed and its widget deleted (WA_DeleteOnClose); the Python object is *)
(* still held by whoever kept the return value of launch_app                    *)
Closed(w) == w < nextId /\ w \notin open
StaleOps == {"focus_me", "on_min", "on_max", "on_close"}

(* every Qt method of a deleted widget raises RuntimeError; focus_me wraps its  *)
(* calls in try / except Exception: pass, the other handlers let it out         *)
stale_result(op) == IF op = "focus_me" THEN "ok" ELSE "RuntimeError"

StaleCall(w, op) ==
  /\ Closed(w)
  /\ staleResult' = stale_result(op)
  /\ UNCHANGED <<windows, workspaces, zorder, current, nextId, open, focused, winvars,
                 addResult, screen_sz, panel, dock, notifications, closeEvents, gestures, histvars>>

(* ---- PyShellApp: overlays ---- *)
(* resizeEvent -> reposition_overlays, the primary screen having size sz; the *)
(* three overlays exist from the constructor on                              *)
ResizeEvent(sz) ==
  /\ screen_sz' = sz
  /\ panel' = panel_geometry(sz)
  /\ dock' = dock_geometry(sz)
  /\ notifications' = notifications_geometry(sz)
  /\ UNCHANGED <<windows, workspaces, zorder, current, nextId, open, focused, winvars,
                 addResult, staleResult, closeEvents, gestures, histvars>>

(* ---- specifications ---- *)
(* the whole program: every handler, in every order *)
Next ==
  \/ LaunchApp
  \/ CycleWindows
  \/ \E i \in SwitchIndexes : SwitchTo(i)
  \/ \E d \in Deltas : SwitchWorkspace(d)
  \/ \E w \in Ids : OnClose(w)
  \/ \E w \in Ids : OnMin(w)
  \/ \E w \in Ids : OnMax(w)
  \/ \E w \in open, b \in Buttons : \E lp \in LocalPoints(w) : MousePress(w, b, lp)
  \/ \E w \in Ids, gp \in PointerPositions : MouseMove(w, gp)
  \/ \E w \in Ids : MouseRelease(w)

Spec == Init /\ [][Next]_vars

(* the shell: launches, closes, cycling, workspace switches and the title-bar *)
(* buttons of up to MaxWindows windows, no pointer gestures                   *)
NextShell ==
  \/ LaunchApp
  \/ CycleWindows
  \/ \E i \in SwitchIndexes : SwitchTo(i)
  \/ \E d \in Deltas : SwitchWorkspace(d)
  \/ \E w \in Ids : OnClose(w)
  \/ \E w \in Ids : OnMin(w)
  \/ \E w \in Ids : OnMax(w)

SpecShell == Init /\ [][NextShell]_vars

(* one window from its launch to its close, under every order of its pointer *)
(* events and title-bar buttons                                              *)
LaunchFirst == nextId = 1 /\ LaunchApp

NextWindow ==
  \/ LaunchFirst
  \/ \E w \in Ids : OnClose(w)
  \/ \E w \in Ids : OnMin(w)
  \/ \E w \in Ids : OnMax(w)
  \/ \E w \in open, b \in Buttons : \E lp \in LocalPoints(w) : MousePress(w, b, lp)
  \/ \E w \in Ids, gp \in PointerPositions : MouseMove(w, gp)
  \/ \E w \in Ids : MouseRelease(w)

SpecWindow == Init /\ [][NextWindow]_vars

(* the workspace manager called directly: add_window(win, idx) with any index *)
NextApi ==
  \/ LaunchApp
  \/ \E i \in SwitchIndexes : AddWindowCall(i)
  \/ \E i \in SwitchIndexes : SwitchTo(i)
  \/ \E w \in Ids : OnClose(w)

SpecApi == Init /\ [][NextApi]_vars

(* launched windows, their title-bar buttons, and calls on the handles of the *)
(* windows that were closed                                                   *)
NextStale ==
  \/ LaunchApp
  \/ CycleWindows
  \/ \E w \in Ids : OnClose(w)
  \/ \E w \in Ids : OnMin(w)
  \/ \E w \in Ids : OnMax(w)
  \/ \E w \in Ids, op \in StaleOps : StaleCall(w, op)

SpecStale == Init /\ [][NextStale]_vars

(* the shell on a screen that changes its size *)
NextOverlay ==
  \/ LaunchApp
  \/ \E d \in Deltas : SwitchWorkspace(d)
  \/ \E w \in Ids : OnClose(w)
  \/ \E w \in Ids : OnMax(w)
  \/ \E sz \in ScreenSizes : ResizeEvent(sz)

SpecOverlay == Init /\ [][NextOverlay]_vars

(* several windows side by side on one canvas, the pointer going down on them *)
(* and up again, and the ring being cycled                                    *)
NextPointer ==
  \/ LaunchApp
  \/ CycleWindows
  \/ \E w \in open, b \in Buttons : \E lp \in LocalPoints(w) : MousePress(w, b, lp)
  \/ \E w \in Ids : MouseRelease(w)

SpecPointer == Init /\ [][NextPointer]_vars

(* the ring of up to MaxWindows + 1 windows under launches, closes and cycling, *)
(* with the operations that leave it alone: switches between the first two     *)
(* workspaces, the buttons of the first window launched, and left-button       *)
(* presses in its title bar (a drag) and on its body (focus by click)          *)
LaunchRing == nextId <= MaxWindows + 1 /\ launch_app
FirstWindow == 1
RingPoints == { <<8, 8>>, <<50, 50>> }

NextRing ==
  \/ LaunchRing
  \/ CycleWindows
  \/ \E i \in {0, 1} : SwitchTo(i)
  \/ \E w \in Ids : OnClose(w)
  \/ OnMin(FirstWindow)
  \/ OnMax(FirstWindow)
  \/ \E lp \in RingPoints : MousePress(FirstWindow, "left", lp)
  \/ MouseRelease(FirstWindow)

SpecRing == Init /\ [][NextRing]_vars

(* ---- properties ---- *)

(* C1: while a window is in a resize gesture (resizing, not dragging), every      *)
(* pointer-move leaves it with width = max(200, initialBounds.width + dx) and     *)
(* height = max(100, initialBounds.height + dy), (dx, dy) = pointer - anchor, so  *)
(* width >= 200 and height >= 100, and the move leaves the origin where it was.   *)
C1_ResizeClamped ==
  [][\A w \in Ids : \A gp \in PointerPositions :
       (MouseMove(w, gp) /\ resizing[w] /\ ~dragging[w]) =>
         LET anchor == gestureStart[w][2]
             initialBounds == gestureStart[w][3]
             wantW == initialBounds[3] + (gp[1] - anchor[1])
             wantH == initialBounds[4] + (gp[2] - anchor[2])
             g == geometry'[w]
         IN /\ gestureStart[w][1] = "resize"
            /\ g[3] = (IF wantW < 200 THEN 200 ELSE wantW)
            /\ g[4] = (IF wantH < 100 THEN 100 ELSE wantH)
            /\ g[3] >= 200 /\ g[4] >= 100
            /\ g[1] = geometry[w][1] /\ g[2] = geometry[w][2]]_vars

(* a resize from (0,0,640,360) by (-900,-900) has left the window at (0,0,200,100) *)
C1_Witness ==
  \E w \in open :
    /\ resizing[w] /\ ~dragging[w]
    /\ gestureStart[w] = <<"resize", <<636, 356>>, <<0, 0, 640, 360>>>>
    /\ geometry[w] = <<0, 0, 200, 100>>

(* C2: while a window is in a drag gesture started by a pointer-down in its title  *)
(* bar, every pointer-move puts its origin at initialBounds.origin + (pointer -    *)
(* anchor), unclamped, and leaves its width and height as they were.               *)
C2_DragFollowsPointer ==
  [][\A w \in Ids : \A gp \in PointerPositions :
       (MouseMove(w, gp) /\ dragging[w] /\ gestureStart[w] # None
          /\ gestureStart[w][1] = "drag") =>
         LET anchor == gestureStart[w][2]
             initialBounds == gestureStart[w][3]
             g == geometry'[w]
         IN /\ g[1] = initialBounds[1] + (gp[1] - anchor[1])
            /\ g[2] = initialBounds[2] + (gp[2] - anchor[2])
            /\ g[3] = geometry[w][3] /\ g[4] = geometry[w][4]]_vars

(* a drag from (0,0,640,360) by (50,-30) has left the window at (50,-30,640,360), *)
(* above the top edge of its canvas                                               *)
C2_Witness ==
  \E w \in open :
    /\ dragging[w]
    /\ gestureStart[w] = <<"drag", <<8, 8>>, <<0, 0, 640, 360>>>>
    /\ geometry[w] = <<50, -30, 640, 360>>

(* C3: the first maximize toggle of a window that is not maximized sets the flag;  *)
(* the second one, when no resize moved the window in between, puts the bounds     *)
(* back to the value they had before the first and clears the flag.               *)
C3_MaximizeRoundTrip ==
  [][\A w \in Ids :
       OnMax(w) =>
         /\ ~is_maximized[w] => is_maximized'[w]
         /\ (is_maximized[w] /\ ~resizedSinceMax[w]) =>
              (geometry'[w] = preMax[w] /\ ~is_maximized'[w])]_vars

(* a window that grew when maximized has been put back to its earlier bounds *)
C3_Witness ==
  \E w \in open :
    /\ ~is_maximized[w]
    /\ ~fixedSize[w]
    /\ prev_geometry[w] = geometry[w]

(* C4: n consecutive cycle_windows calls on a ring of n >= 1 windows, with no      *)
(* launch and no close in between, leave the ring in the order it had before the   *)
(* first call, so the front window is the one that was in front.                   *)
C4_CycleLaw ==
  (cycleCount >= 1 /\ cycleCount = Len(windows)) =>
    (windows = cycleMark /\ Head(windows) = Head(cycleMark))

(* a full round over a ring of at least two windows has been made *)
C4_Witness ==
  /\ Len(windows) >= 2
  /\ cycleCount = Len(windows)
  /\ windows = cycleMark

(* the residue of each index modulo the number of workspaces, by its definition *)
Residue ==
  [i \in SwitchIndexes |->
     CHOOSE r \in WsIndex :
       \E q \in (0 - 2 * WORKSPACE_COUNT)..(2 * WORKSPACE_COUNT) :
         i = q * WORKSPACE_COUNT + r]

(* C5: the active index is always one of 0..N-1, and switch_to(index) sets it to   *)
(* index mod N for every integer index, below 0 and from N up included:            *)
(* switch_to(7) on 4 workspaces gives 3.                                           *)
C5_SwitchWraps ==
  /\ current \in WsIndex
  /\ [][/\ current' \in WsIndex
        /\ \A i \in SwitchIndexes : current' = Residue[i] \/ ~SwitchTo(i)
        /\ current' = 3 \/ WORKSPACE_COUNT # 4 \/ ~SwitchTo(7)]_vars

(* the last workspace is the active one, as after switch_to(7) or switch_to(-1) *)
C5_Witness ==
  /\ current = WORKSPACE_COUNT - 1
  /\ current = Residue[2 * WORKSPACE_COUNT - 1]
  /\ current = Residue[0 - 1]

(* C6: a switch_to step changes nothing but the active index: the bounds, the      *)
(* maximize flags, the saved bounds, the container sequences, the stacking and the *)
(* ring of all windows stay as they were.  (A switch_to step is a step that        *)
(* changes the active index, or one that is SwitchTo(i) for some i.)               *)
C6_SwitchFrame ==
  [][\/ UNCHANGED <<windows, workspaces, zorder, open, geometry, fixedSize,
                    is_maximized, prev_geometry, hidden>>
     \/ (current' = current /\ ~(\E i \in SwitchIndexes : SwitchTo(i)))]_vars

(* the active workspace was switched away from a maximized window *)
C6_Witness ==
  \E w \in open :
    /\ Owner(w) # current
    /\ is_maximized[w]
    /\ Len(windows) >= 2

(* C7: closing an open window (an OnClose step, the only one that ends a window)   *)
(* takes it out of the one container that held it and out of the ring, and every   *)
(* other window stays in its container and in the ring.                            *)
C7_CloseRemoves ==
  [][\A w \in Ids :
       ((w \in open /\ w \notin open') \/ OnClose(w)) =>
         /\ Cardinality({k \in WsIndex : InSeq(workspaces[k], w)}) = 1
         /\ InSeq(windows, w)
         /\ \A k \in WsIndex : ~InSeq(workspaces'[k], w)
         /\ ~InSeq(windows', w)
         /\ \A v \in Ids \ {w} :
              /\ InSeq(windows', v) <=> InSeq(windows, v)
              /\ \A k \in WsIndex : InSeq(workspaces'[k], v) <=> InSeq(workspaces[k], v)]_vars

(* a window has been closed while another one stays open *)
C7_Witness ==
  \E w \in Ids : \E v \in open :
    /\ w < nextId /\ w \notin open
    /\ InSeq(windows, v)
    /\ \E k \in WsIndex : InSeq(workspaces[k], v)

InOneContainer(cs, w) ==
  \E k \in WsIndex :
    /\ Len(SelectSeq(cs[k], LAMBDA e : e = w)) = 1
    /\ \A j \in WsIndex \ {k} : ~InSeq(cs[j], w)

(* C9: every open window is in exactly one container, exactly once, and stays in   *)
(* that container for as long as it is open.                                       *)
C9_OneContainer ==
  /\ \A w \in open : InOneContainer(workspaces, w)
  /\ [][/\ \A w \in open' : InOneContainer(workspaces', w)
        /\ \/ workspaces' = workspaces
           \/ \A w \in open \cap open' : \A k \in WsIndex :
                InSeq(workspaces'[k], w) <=> InSeq(workspaces[k], w)]_vars

(* two open windows live in different containers, neither in the active one *)
C9_Witness ==
  \E v \in open : \E w \in open :
    /\ Owner(v) # Owner(w)
    /\ Owner(v) # current
    /\ Owner(w) # current

(* C10: add_window(window, idx) with idx below 0 or from N up fails and changes    *)
(* nothing: no container, not the active index, not the ring.                      *)
C10_AddWindowOutOfRange ==
  [][\A i \in SwitchIndexes :
       (AddWindowCall(i) /\ (i < 0 \/ i >= WORKSPACE_COUNT)) =>
         /\ addResult' = "IndexError"
         /\ UNCHANGED <<windows, workspaces, current, open>>]_vars

(* C11 as stated: switch_to(index) with an index outside 0..N-1 leaves the active *)
(* index as it was before the call.                                               *)
C11_SwitchOutOfRangeNoOp ==
  [][\A i \in SwitchIndexes :
       (SwitchTo(i) /\ (i < 0 \/ i >= WORKSPACE_COUNT)) => current' = current]_vars

(* C11, amended: switch_to(index) with an index outside 0..N-1 is carried out like *)
(* any other: the active index becomes index mod N, so the call leaves the active  *)
(* index where it was only when that already was index mod N.                      *)
C11_SwitchOutOfRangeWraps ==
  [][\A i \in SwitchIndexes :
       (i >= 0 /\ i < WORKSPACE_COUNT) \/ ~SwitchTo(i)
         \/ (/\ current' = Residue[i]
             /\ (current' = current) <=> (current = Residue[i]))]_vars

(* the active index has left workspace 0 for the residue of an index below 0 and *)
(* of an index from N up                                                         *)
C11_Witness ==
  \E i \in SwitchIndexes : \E j \in SwitchIndexes :
    /\ i < 0 /\ j >= WORKSPACE_COUNT
    /\ current = Residue[i] /\ current = Residue[j]
    /\ current # 0

(* C12: every call (focus, minimize, maximize, close) on the handle of a window    *)
(* that was closed is reported as a failure, and leaves every open window as it is. *)
C12_StaleHandleFails ==
  [][\A w \in Ids : \A op \in StaleOps :
       StaleCall(w, op) =>
         /\ staleResult' = "RuntimeError"
         /\ UNCHANGED <<windows, workspaces, zorder, open, focused, winvars>>]_vars

(* C13: after cycle_windows on a non-empty ring the window it focused lives in the *)
(* active workspace: when its owner workspace was another one, the active index    *)
(* has become the index of that owner.                                             *)
C13_CycleShowsFocused ==
  [][(windows # << >> /\ CycleWindows) =>
       /\ focused' \in open
       /\ current' = Owner(focused')]_vars

(* the overlays ov = <<panel, dock, tray>> are the ones of a W x H screen *)
OverlaysFit(ov, W, H) ==
  /\ ov[1] = <<0, 0, W, 48>>
  /\ ov[2] = <<8, 48 + 8, 64, H - 48 - 2 * 8>>
  /\ ov[3][2] = 48 + 8
  /\ ov[3][3] = 320
  /\ ov[3][1] + ov[3][3] = W - 20
  /\ (H = 720) => (ov[2][4] = 656)

(* C14: for every screen size (W, H) the overlays are panel = (0, 0, W, 48), dock =  *)
(* (8, 56, 64, H - 48 - 16) and a tray of fixed width 320 whose right edge is 20     *)
(* left of the screen's, at y = 56; H = 720 gives dock height 656.  They are a       *)
(* function of the current screen size alone, and a step that recomputes them        *)
(* changes no window's bounds, flags or saved bounds.                                *)
C14_OverlayLayout ==
  /\ OverlaysFit(<<panel, dock, notifications>>, screen_sz[1], screen_sz[2])
  /\ [][/\ OverlaysFit(<<panel', dock', notifications'>>, screen_sz'[1], screen_sz'[2])
        /\ \/ UNCHANGED <<screen_sz, panel, dock, notifications>>
           \/ UNCHANGED <<geometry, fixedSize, is_maximized, prev_geometry, hidden,
                          windows, workspaces, zorder>>]_vars

(* the screen is 1280 x 720 and a maximized window is open: the dock is 656 high *)
C14_Witness ==
  /\ screen_sz = <<1280, 720>>
  /\ dock = <<8, 56, 64, 656>>
  /\ panel = <<0, 0, 1280, 48>>
  /\ notifications = <<940, 56, 320, 400>>
  /\ \E w \in open : is_maximized[w]

(* C15: a pointer-down in the title bar or in the resize corner of a window whose  *)
(* session is not idle (it is dragging or resizing) is ignored: the mode, the      *)
(* anchor and the initial bounds of the running session stay as they were.         *)
C15_DuplicateStartIgnored ==
  [][\A w \in open : \A lp \in LocalPoints(w) :
       (/\ dragging[w] \/ resizing[w]
        /\ InTitlebar(w, lp) \/ InResizeCorner(w, lp)
        /\ MousePress(w, "left", lp)) =>
         /\ dragging'[w] = dragging[w]
         /\ resizing'[w] = resizing[w]
         /\ drag_offset'[w] = drag_offset[w]
         /\ resize_start'[w] = resize_start[w]
         /\ resize_initial_geom'[w] = resize_initial_geom[w]]_vars

(* C16: minimize hides the window and changes nothing else: the sequences of the   *)
(* containers and the ring are as before (the window at its old positions), and    *)
(* the bounds, the maximize flag and the saved bounds of every window are as       *)
(* before.  (A minimize step is an OnMin step, or one that hides a shown window.)  *)
C16_MinimizeFrame ==
  [][\/ (hidden' = hidden /\ \A w \in open : ~OnMin(w))
     \/ /\ \E w \in open : ~hidden[w] /\ hidden' = [hidden EXCEPT ![w] = TRUE]
        /\ UNCHANGED <<windows, workspaces, open, geometry, fixedSize, is_maximized,
                       prev_geometry>>]_vars

(* a maximized window at the front of a ring of two has been minimized *)
C16_Witness ==
  /\ Len(windows) >= 2
  /\ hidden[windows[1]]
  /\ is_maximized[windows[1]]
  /\ InSeq(workspaces[Owner(windows[1])], windows[1])
  /\ geometry[windows[1]] = maximized_geometry

(* C17: over the life of every window the window closed notification with its      *)
(* identity is emitted once per close (never for an open window, once for a closed *)
(* one), before the window is released; its record holds no other identity.        *)
C17_CloseNotifiesOnce ==
  \A w \in Ids :
    /\ (w \in open \/ w >= nextId) => closeEvents[w] = << >>
    /\ Closed(w) =>
         /\ Len(SelectSeq(closeEvents[w], LAMBDA e : e[1] = "window_closed")) = 1
         /\ Len(SelectSeq(closeEvents[w], LAMBDA e : e[1] = "close")) = 1
         /\ closeEvents[w][1][1] = "window_closed"
         /\ \A i \in 1..Len(closeEvents[w]) : closeEvents[w][i][2] = w

(* one window has been closed and has its notification, another one is open *)
C17_Witness ==
  \E w \in Ids : \E v \in open :
    /\ Closed(w)
    /\ closeEvents[w] = << <<"window_closed", w>>, <<"close", w>> >>
    /\ closeEvents[v] = << >>

(* i mod N for the sums of an active index and a delta, by the definition of mod *)
Wrapped ==
  [i \in (0 - 2 * WORKSPACE_COUNT)..(3 * WORKSPACE_COUNT) |->
     CHOOSE r \in WsIndex :
       \E q \in (0 - 2)..3 : i = q * WORKSPACE_COUNT + r]

(* n calls switch_workspace(delta) in a row, from active index cur *)
RECURSIVE SwitchByTimes(_, _, _)
SwitchByTimes(cur, delta, n) ==
  IF n = 0 THEN cur ELSE SwitchByTimes(switch_workspace(cur, delta), delta, n - 1)

(* from active index cur, N times switch_workspace(1), and switch_workspace(1) *)
(* followed by switch_workspace(-1), end at cur                               *)
SwitchByReturns(cur) ==
  /\ SwitchByTimes(cur, 1, WORKSPACE_COUNT) = cur
  /\ switch_workspace(switch_workspace(cur, 1), -1) = cur

C19_EmptyRingCycle ==
  [][(windows = << >> /\ CycleWindows) =>
       /\ windows' = << >>
       /\ UNCHANGED <<current, focused, workspaces, zorder, open, addResult,
                      staleResult>>]_vars

(* the ring has been emptied again, away from workspace 0, where a cycle finds it *)
C19_Witness ==
  /\ windows = << >>
  /\ nextId > 1
  /\ current # 0
  /\ focused = NoWindow

(* C20: cycle_windows on a non-empty ring moves the front window to the back and   *)
(* then raises and focuses the window that is at the front after the rotation: the *)
(* window holding the focus is the new front, not the one just moved to the back.  *)
C20_CycleFocusesFront ==
  [][(windows # << >> /\ CycleWindows) =>
       /\ windows' = Append(Tail(windows), Head(windows))
       /\ focused' = Head(windows')
       /\ zorder'[Owner(focused')][Len(zorder'[Owner(focused')])] = Head(windows')]_vars

(* C21: every window is in exactly one of the modes idle, dragging, resizing (never *)
(* dragging and resizing at once), and at most one window is dragging or resizing.  *)
C21_OneMode ==
  /\ \A w \in Ids : ~(dragging[w] /\ resizing[w])
  /\ \A v \in Ids : \A w \in Ids :
       ((dragging[v] \/ resizing[v]) /\ (dragging[w] \/ resizing[w])) => v = w

(* C22: a pointer-up delivered to a window that is dragging or resizing leaves it   *)
(* idle and leaves its bounds at the value the last pointer-move gave them; a       *)
(* pointer-move delivered to an idle window does not change its bounds.             *)
C22_ReleaseEndsGesture ==
  [][\A w \in open :
       /\ (MouseRelease(w) /\ (dragging[w] \/ resizing[w])) =>
            /\ ~dragging'[w] /\ ~resizing'[w]
            /\ geometry'[w] = geometry[w]
       /\ (~dragging[w] /\ ~resizing[w]) =>
            \A gp \in PointerPositions :
              MouseMove(w, gp) => geometry'[w] = geometry[w]]_vars

(* a window that a resize made 200 x 100 is idle again, at those bounds *)
C22_Witness ==
  \E w \in open :
    /\ ~dragging[w] /\ ~resizing[w]
    /\ gestureStart[w] = None
    /\ fixedSize[w]
    /\ geometry[w] = <<0, 0, 200, 100>>

(* C23: after a launch (add_window on the active workspace, then the append to the *)
(* ring) the new window is the last element of the container of that workspace,    *)
(* holds the focus and is at the front of the ring.                                *)
C23_AddWindowFocuses ==
  [][LaunchApp =>
       /\ workspaces'[current] = Append(workspaces[current], nextId)
       /\ \A k \in WsIndex : InSeq(workspaces'[k], nextId) <=> k = current
       /\ focused' = nextId
       /\ Head(windows') = nextId]_vars

(* C24: when a pointer-down starts a drag or a resize on an idle window, that      *)
(* window is at the front of the ring in the resulting state.                      *)
C24_GestureStartRaises ==
  [][\A w \in open : \A lp \in LocalPoints(w) :
       (/\ ~dragging[w] /\ ~resizing[w]
        /\ MousePress(w, "left", lp)
        /\ dragging'[w] \/ resizing'[w]) =>
         Head(windows') = w]_vars

(* the identities of S in launch order (identities are given out increasing) *)
LaunchOrder(S) == SelectSeq([i \in Ids |-> i], LAMBDA i : i \in S)
(* seq rotated by r places *)
Rotated(seq, r) == [i \in 1..Len(seq) |-> seq[((i - 1 + r) % Len(seq)) + 1]]
IsRotation(ring, seq) ==
  /\ Len(ring) = Len(seq)
  /\ seq = << >> \/ \E r \in 0..(Len(seq) - 1) : ring = Rotated(seq, r)
(* ring holds the windows of S, each once *)
HoldsEachOnce(ring, S) ==
  /\ Len(ring) = Cardinality(S)
  /\ {ring[i] : i \in 1..Len(ring)} = S

(* a step leaves the ring alone, or is a launch that appends the new window at   *)
(* the back, a close that deletes the closed window, or a cycle that rotates by  *)
(* one                                                                           *)
RingStep ==
  \/ windows' = windows
  \/ LaunchRing /\ windows' = Append(windows, nextId)
  \/ CycleWindows /\ windows' = Append(Tail(windows), Head(windows))
  \/ \E w \in open :
       /\ OnClose(w)
       /\ Len(windows') = Len(windows) - 1
       /\ windows' = SelectSeq(windows, LAMBDA e : e # w)

(* C25 as stated: the ring is always a cyclic rotation of the open windows in    *)
(* launch order, and it changes only by a launch appending, a close deleting one *)
(* element and a cycle rotating by one.                                          *)
C25_RingIsRotation ==
  /\ IsRotation(windows, LaunchOrder(open))
  /\ [][IsRotation(windows', LaunchOrder(open')) /\ RingStep]_vars

(* C25, amended: the ring always holds the open windows, each once (in an order  *)
(* that need not be a rotation of launch order), and it changes only by a launch *)
(* appending, a close deleting one element and a cycle rotating by one; focus,   *)
(* gesture starts, minimize, maximize and switch_to leave it as it is.           *)
C25_RingSteps ==
  /\ HoldsEachOnce(windows, open)
  /\ [][\/ (windows' = windows /\ open' = open)
        \/ (HoldsEachOnce(windows', open') /\ RingStep)]_vars

(* three windows are open in an order that is no rotation of their launch order, *)
(* the first of them maximized and hidden, the second workspace active          *)
C25_Witness ==
  /\ Len(windows) >= 3
  /\ ~IsRotation(windows, LaunchOrder(open))
  /\ is_maximized[FirstWindow] /\ hidden[FirstWindow]
  /\ current = 1

(* C26: a window that has been minimized stays hidden for as long as it is open:   *)
(* no launch, cycle, maximize toggle or workspace switch shows it again; and a     *)
(* cycle that reaches a hidden window gives it the focus and leaves it hidden.     *)
C26_MinimizedStaysHidden ==
  [][/\ \/ hidden' = hidden
        \/ \A w \in open \cap open' : hidden[w] => hidden'[w]
     /\ \/ windows = << >>
        \/ ~hidden[Head(windows)]
        \/ ~CycleWindows
        \/ (focused' = Head(windows) /\ hidden'[Head(windows)])]_vars

(* a minimized window holds the focus after a cycle, hidden, while a window that *)
(* was launched later is shown                                                   *)
C26_Witness ==
  \E w \in open : \E v \in open :
    /\ hidden[w] /\ focused = w
    /\ v > w /\ ~hidden[v]
    /\ cycleCount >= 1

====
